---- MODULE Spec2Model ----
(***************************************************************************)
(* A model of the website mirror tool's concurrent crawl scheduler:        *)
(* the two-lane priority queue (src/src/priority_queue.rs), the worker     *)
(* loop with its countdown-latch termination protocol and the link filter  *)
(* (src/src/lib.rs), the pool start-up (src/src/main.rs), and the mapping  *)
(* of URLs to local paths with its query escape (src/src/lib.rs,           *)
(* src/src/escape_path.rs).                                                *)
(*                                                                         *)
(* Every access to a shared structure (one lane of the queue, the checked  *)
(* set, the latch) is one atomic step of one worker; steps of different    *)
(* workers interleave freely.                                              *)
(***************************************************************************)
EXTENDS Naturals, Sequences, FiniteSets

VARIABLES
    targets,         \* Settings::targets, the configured target URLs
    downloaded_urls, \* Worker::downloaded_urls, filled once by insert_files
    checked_urls,    \* Worker::checked_urls, shared DashSet
    queues,          \* PriorityQueue::queues, one FIFO per Priority
    latch,           \* CountdownEvent counter
    pc,              \* position of each worker thread in Worker::run/_run
    url,             \* the job a worker holds (Option<Url> of the pop)
    pos,             \* parse: position in the lazy link iterator
    seen,            \* is_empty: the lanes already observed empty
    err,             \* the Error a worker's job or loop ended with
    stale,           \* history: the held job was in checked_urls when popped
    fetched,         \* history: URLs whose download returned Ok
    warnings,        \* history: URLs reported by "Checked {url} twice"
    pushed,          \* history: the lane of each push, in push order
    popped,          \* history: the result of each pop, in return order
    interleaved,     \* history: a push was made after a pop had begun
    urls,            \* path mapping: the URLs url_to_path is called with
    paths,           \* path mapping: what url_to_path returned for them
    fetched_by       \* history: per observed worker, the URLs whose
                     \* download by that worker returned Ok

vars == <<targets, downloaded_urls, checked_urls, queues, latch, pc, url, pos,
          seen, err, stale, fetched, warnings, pushed, popped,
          interleaved, urls, paths, fetched_by>>

\* the history variables of the queue specification
qhist == <<pushed, popped, interleaved>>

\* the variables of the path mapping specification
pvars == <<urls, paths>>

(***************************************************************************)
(* Bounds                                                                  *)
(***************************************************************************)
\* number of worker threads of the pool (run_worker_pool's `threads`)
NumWorkers == 2

Workers == 1..NumWorkers

\* queue specification: number of push calls and of pop calls of a run
MaxPush == 4

MaxPops == 5

\* path mapping specification: length of the query strings
MaxQuery == 2

(***************************************************************************)
(* Option values                                                           *)
(***************************************************************************)
NoneV == [some |-> FALSE]

Some(v) == [some |-> TRUE, val |-> v]

(***************************************************************************)
(* Priority (priority_queue.rs)                                            *)
(***************************************************************************)
Priority == {"Normal", "Low"}

PriorityDefault == "Normal"

(***************************************************************************)
(* URLs: a host (a domain name, an IP address or none), a path and an       *)
(* optional query. Path and query are strings, a string is a sequence of   *)
(* characters; a host name and "index.html" are written as one character.  *)
(***************************************************************************)
Domain(n) == [kind |-> "domain", name |-> n]

Ip(n) == [kind |-> "ip", name |-> n]

NoHost == [kind |-> "none", name |-> ""]

U(h, p) == [host |-> h, path |-> p, query |-> NoneV]

\* the URL u with the query component query (Url::query: None or a string)
with_query(u, query) == [u EXCEPT !.query = query]

NoUrl == U(NoHost, <<>>)

\* Url::domain(): the host if it is a domain name, None for an IP address
domain(u) == IF u.host.kind = "domain" THEN Some(u.host.name) ELSE NoneV

\* str::starts_with
starts_with(s, t) == Len(t) <= Len(s) /\ SubSeq(s, 1, Len(t)) = t

\* Url::cannot_be_a_base: what follows "scheme:" does not begin with '/'
\* (a host is written "//host", so only a URL without host can be opaque)
cannot_be_a_base(u) == u.host.kind = "none" /\ ~starts_with(u.path, <<"/">>)

(***************************************************************************)
(* The mirrored web: the URLs that occur, what the server sends for each   *)
(* and which hrefs the HTML collaborator extracts from it.                 *)
(***************************************************************************)
aRoot == U(Domain("a"), <<"/">>)

aDoc == U(Domain("a"), <<"/", "d">>)

aQ == U(Domain("a"), <<"/", "q">>)

bRoot == U(Domain("b"), <<"/">>)

ip1Root == U(Ip("10.0.0.1"), <<"/">>)

ip2Root == U(Ip("10.0.0.2"), <<"/">>)

\* an href attribute: "abs" parses as an absolute URL, "rel" is resolved
\* against the page (url is the join's result), "dotdot" begins with "..",
\* "bad" is rejected by Url::parse
Href(k, u) == [kind |-> k, url |-> u]

\* the response's Content-Type is exactly text/html
IsHtml(u) == u \in {aRoot, aDoc}

\* the a[href] values of the page served for u, in document order
Document(u) ==
    IF u = aRoot THEN <<Href("bad", NoUrl), Href("abs", aDoc),
                        Href("abs", ip2Root), Href("abs", bRoot)>>
    ELSE IF u = aDoc THEN <<Href("rel", aQ), Href("dotdot", NoUrl),
                            Href("abs", aDoc)>>
    ELSE <<>>

\* the runs of the model: the targets of the command line (Args::targets)
\* and the URLs insert_files finds on disk at start-up
Run(ts, d) == [targets |-> ts, downloaded |-> d]

Runs == {Run(<<aRoot>>, {aQ}),
         Run(<<aDoc>>, {}),
         Run(<<aRoot, ip1Root>>, {aQ}),
         Run(<<aDoc, aRoot>>, {aDoc})}

(***************************************************************************)
(* PriorityQueue (priority_queue.rs)                                       *)
(***************************************************************************)
\* PriorityQueue::new: both lanes exist and are empty
new == [p \in Priority |-> <<>>]

\* Option<Priority>::unwrap_or_default
unwrap_or_default(priority) ==
    IF priority.some THEN priority.val ELSE PriorityDefault

\* a pop_priority that takes the newest value of the lane
pop_newest(q, priority) ==
    IF q[priority] = <<>>
    THEN [val |-> NoneV, q |-> q]
    ELSE [val |-> Some(q[priority][Len(q[priority])]),
          q |-> [q EXCEPT ![priority] = SubSeq(@, 1, Len(@) - 1)]]

\* PriorityQueue::pop_priority: SegQueue::pop of one lane
pop_priority(q, priority) ==
    IF q[priority] = <<>>
    THEN [val |-> NoneV, q |-> q]
    ELSE [val |-> Some(Head(q[priority])),
          q |-> [q EXCEPT ![priority] = Tail(@)]]

\* a pop that tries the Low lane first
pop_order_low_first == <<"Low", "Normal">>

\* PriorityQueue::pop tries the lanes in this order
pop_order == <<"Normal", "Low">>

\* PriorityQueue::push: SegQueue::push on the lane of the priority
push(q, value, priority) ==
    [q EXCEPT ![unwrap_or_default(priority)] = Append(@, value)]

\* SegQueue::is_empty of one lane, as PriorityQueue::is_empty reads it
lane_is_empty(q, priority) == q[priority] = <<>>

(***************************************************************************)
(* The link filter of Worker::parse (lib.rs 340-379)                       *)
(***************************************************************************)
\* the lexical ".." filter and Url::parse / base_url.join: Some(url) for an
\* href that yields a URL, None for one that is dropped
resolve(h) ==
    IF h.kind = "dotdot" THEN NoneV
    ELSE IF h.kind \in {"abs", "rel"} THEN Some(h.url)
    ELSE NoneV

\* index of the first href at or after i that yields a URL, Len(doc)+1 if none
RECURSIVE next_href(_, _)
next_href(doc, i) ==
    IF i > Len(doc) THEN Len(doc) + 1
    ELSE IF resolve(doc[i]).some THEN i
    ELSE next_href(doc, i + 1)

\* the two filters applied to a (url, target) pair of the cartesian product
target_matches(u, target) ==
    /\ domain(u) = domain(target)
    /\ starts_with(u.path, target.path)

\* index of the first target after j that u is kept for, 0 if there is none
RECURSIVE next_target(_, _, _)
next_target(u, ts, j) ==
    IF j + 1 > Len(ts) THEN 0
    ELSE IF target_matches(u, ts[j + 1]) THEN j + 1
    ELSE next_target(u, ts, j + 1)

\* a priority that ignores the files found at start-up
link_priority_normal(u, downloaded) == "Normal"

\* the priority a kept link is pushed with
link_priority(u, downloaded) ==
    IF u \in downloaded THEN "Low" ELSE "Normal"

(***************************************************************************)
(* escape_path (escape_path.rs): every character of the string is replaced *)
(* by its escape.                                                          *)
(***************************************************************************)
DivisionSlash == "U+2215"

\* char::escape_default: backslash escapes for tab, CR, LF, the quotes and
\* the backslash, a printable ASCII character as it is, \u{hex} for the rest
escape_default(c) ==
    IF c = "\\" THEN <<"\\", "\\">>
    ELSE IF c = "\t" THEN <<"\\", "t">>
    ELSE IF c = "'" THEN <<"\\", "'">>
    ELSE IF c = DivisionSlash THEN <<"\\", "u", "{", "2", "2", "1", "5", "}">>
    ELSE <<c>>

\* an escape that leaves the separator to escape_default
escape_char_default_only(c) == escape_default(c)

\* CharExt::escape_path for char
escape_char(c) ==
    IF c = "/" THEN <<DivisionSlash>> ELSE escape_default(c)

\* EscapePathExt::escape_path for str, collected into a String
RECURSIVE escape_path(_)
escape_path(str) ==
    IF str = <<>> THEN <<>>
    ELSE escape_char(Head(str)) \o escape_path(Tail(str))

(***************************************************************************)
(* Strings and paths: str::split, str::rsplit_once and std::path::PathBuf. *)
(* A PathBuf is the sequence of its components, which is what PathBuf's    *)
(* equality compares.                                                      *)
(***************************************************************************)
\* index of the first '/' of s, 0 if there is none
RECURSIVE find(_, _)
find(s, i) ==
    IF i > Len(s) THEN 0 ELSE IF s[i] = "/" THEN i ELSE find(s, i + 1)

\* index of the last '/' of s at or before i, 0 if there is none
RECURSIVE rfind(_, _)
rfind(s, i) ==
    IF i = 0 THEN 0 ELSE IF s[i] = "/" THEN i ELSE rfind(s, i - 1)

\* str::split('/'): the pieces between the separators, empty ones included
RECURSIVE split(_)
split(s) ==
    IF find(s, 1) = 0 THEN <<s>>
    ELSE <<SubSeq(s, 1, find(s, 1) - 1)>>
           \o split(SubSeq(s, find(s, 1) + 1, Len(s)))

NonEmpty(piece) == piece # <<>>

\* PathBuf::from(String): the components of the path, repeated and trailing
\* separators ignored
PathBuf_from(s) == SelectSeq(split(s), NonEmpty)

\* Path::with_file_name: the last component is popped and file_name pushed
with_file_name(path, file_name) ==
    (IF path = <<>> THEN <<>> ELSE SubSeq(path, 1, Len(path) - 1))
      \o PathBuf_from(file_name)

(***************************************************************************)
(* url_to_path and merge_file_name_and_query (lib.rs 385-414)              *)
(***************************************************************************)
\* Url::path_segments: None unless the path begins with '/', else the split
\* of what follows it
path_segments(u) ==
    IF starts_with(u.path, <<"/">>) THEN Some(split(Tail(u.path))) ELSE NoneV

\* a merge that forgets the query
merge_file_name_only(u) ==
    IF ~starts_with(u.path, <<"/">>) THEN NoneV
    ELSE IF u.path[Len(u.path)] = "/" THEN Some(<<"index.html">>)
    ELSE Some(SubSeq(u.path, rfind(u.path, Len(u.path)) + 1, Len(u.path)))

\* merge_file_name_and_query: the last segment, "index.html" for an empty
\* one, followed by '?' and the escaped query if there is a query
merge_file_name_and_query(u) ==
    IF ~path_segments(u).some THEN NoneV
    ELSE LET segments == path_segments(u).val
             last == segments[Len(segments)]
             file_name == IF last = <<>> THEN <<"index.html">> ELSE last
         IN IF u.query.some
            THEN Some(file_name \o <<"?">> \o escape_path(u.query.val))
            ELSE Some(file_name)

\* url_to_path: None for a URL that cannot be a base or has no domain name;
\* base is domain + path; base.rsplit_once('/') decides between appending
\* the file name to a base that ends in '/' and replacing the last component
url_to_path(u) ==
    IF cannot_be_a_base(u) THEN NoneV
    ELSE IF ~domain(u).some THEN NoneV
    ELSE IF ~merge_file_name_and_query(u).some THEN NoneV
    ELSE LET base == <<domain(u).val>> \o u.path
             file_name == merge_file_name_and_query(u).val
             k == rfind(base, Len(base))
         IN IF k = 0 THEN NoneV
            ELSE IF k = Len(base) THEN Some(PathBuf_from(base \o file_name))
            ELSE Some(with_file_name(PathBuf_from(base), file_name))

(***************************************************************************)
(* The errors a download can return (lib.rs 242-280, 282-334, 336-337),    *)
(* named by the step of download() that returns them:                      *)
(*   "SendRequest"  Error::SendRequest                                     *)
(*   "Header"       Error::HeaderValueToString, Error::ParseContentLength  *)
(*   "Save"         Error::CreateFile, Error::TimedOut,                    *)
(*                  Error::GetResponseBody, Error::WriteFile               *)
(*   "ReadFile"     Error::ReadFile                                        *)
(*   "HtmlParse"    Error::HtmlParse                                       *)
(***************************************************************************)
\* errors returned before save_response_to_disk maps the response URL
RequestErrors == {"SendRequest", "Header"}

\* errors returned by save_response_to_disk / save_to_disk
SaveErrors == {"Save"}

\* errors of download() that only a text/html response can meet
HtmlErrors == {"ReadFile", "HtmlParse"}

NoErr == "none"

(***************************************************************************)
(* Start-up: run_worker_pool (main.rs 57-86)                               *)
(***************************************************************************)
\* the seed loop: priority_queue.push(url.clone(), None) for every target
RECURSIVE seed(_, _)
seed(q, ts) ==
    IF ts = <<>> THEN q ELSE seed(push(q, Head(ts), NoneV), Tail(ts))

Init ==
    /\ \E r \in Runs : targets = r.targets /\ downloaded_urls = r.downloaded
    /\ checked_urls = {}
    /\ queues = seed(new, targets)
    /\ latch = NumWorkers
    /\ pc = [w \in Workers |-> "start"]
    /\ url = [w \in Workers |-> NoUrl]
    /\ pos = [w \in Workers |-> [i |-> 0, j |-> 0]]
    /\ seen = [w \in Workers |-> {}]
    /\ err = [w \in Workers |-> NoErr]
    /\ stale = [w \in Workers |-> FALSE]
    /\ fetched = {}
    /\ warnings = {}
    /\ pushed = <<>>
    /\ popped = <<>>
    /\ interleaved = FALSE
    /\ urls = <<>>
    /\ paths = <<>>
    /\ fetched_by = <<>>

(***************************************************************************)
(* Worker::run and the polling loop Worker::_run (lib.rs 167-223)          *)
(***************************************************************************)
\* the job is dropped: the worker holds nothing any more
Idle(w) ==
    /\ url' = [url EXCEPT ![w] = NoUrl]
    /\ stale' = [stale EXCEPT ![w] = FALSE]

\* run(): the runtime is built and _run is entered
Start(w) ==
    /\ pc[w] = "start"
    /\ pc' = [pc EXCEPT ![w] = "pop"]
    /\ UNCHANGED <<targets, downloaded_urls, checked_urls, queues, latch, url,
                   pos, seen, err, stale, fetched, warnings, qhist, pvars,
                   fetched_by>>

\* a start-up failure that takes the worker out of the counter
StartFailSignalled(w) ==
    /\ pc[w] = "start"
    /\ pc' = [pc EXCEPT ![w] = "dead"]
    /\ err' = [err EXCEPT ![w] = "BuildRuntime"]
    /\ latch' = latch - 1
    /\ UNCHANGED <<targets, downloaded_urls, checked_urls, queues, url, pos,
                   seen, stale, fetched, warnings, qhist, pvars,
                   fetched_by>>

\* run(): RuntimeBuilder::build fails, run returns Err(BuildRuntime) and the
\* thread ends on the unwrap of spawn_worker
StartFail(w) ==
    /\ pc[w] = "start"
    /\ pc' = [pc EXCEPT ![w] = "dead"]
    /\ err' = [err EXCEPT ![w] = "BuildRuntime"]
    /\ UNCHANGED <<targets, downloaded_urls, checked_urls, queues, latch, url,
                   pos, seen, stale, fetched, warnings, qhist, pvars,
                   fetched_by>>

\* one pop_priority of PriorityQueue::pop: the k-th lane of pop_order
PopLane(w, k, here, miss) ==
    /\ pc[w] = here
    /\ LET r == pop_priority(queues, pop_order[k]) IN
         IF r.val.some
         THEN /\ queues' = r.q
              /\ url' = [url EXCEPT ![w] = r.val.val]
              /\ stale' = [stale EXCEPT ![w] = r.val.val \in checked_urls]
              /\ pc' = [pc EXCEPT ![w] = "dispatch"]
         ELSE /\ pc' = [pc EXCEPT ![w] = miss]
              /\ UNCHANGED <<queues, url, stale>>
    /\ UNCHANGED <<targets, downloaded_urls, checked_urls, latch, pos, seen,
                   err, fetched, warnings, qhist, pvars, fetched_by>>

\* pop(): self.pop_priority(Priority::Normal)
PopFirst(w) == PopLane(w, 1, "pop", "pop2")

\* pop(): .or_else(|| self.pop_priority(Priority::Low)); None leads to the
\* else branch of the loop
PopSecond(w) == PopLane(w, 2, "pop2", "dec")

\* a contains that never finds the URL
never_checked(checked, u) == FALSE

\* self.checked_urls.contains(&url) of the dispatch
is_checked(checked, u) == u \in checked

\* if self.checked_urls.contains(&url) { continue; }
Dispatch(w) ==
    /\ pc[w] = "dispatch"
    /\ IF is_checked(checked_urls, url[w])
       THEN /\ pc' = [pc EXCEPT ![w] = "pop"]
            /\ Idle(w)
       ELSE /\ pc' = [pc EXCEPT ![w] = "work"]
            /\ UNCHANGED <<url, stale>>
    /\ UNCHANGED <<targets, downloaded_urls, checked_urls, queues, latch, pos,
                   seen, err, fetched, warnings, qhist, pvars, fetched_by>>

\* a work() that drops the result of download() and goes on to the insert
after_download_ignored(ok) == "mark"

\* where work() goes with the result of download(): `?` returns the error to
\* _run, Ok goes on to the insert into checked_urls
after_download(ok) == IF ok THEN "mark" ELSE "requeue"

\* the errors download() can return for the job u
download_errors(u) ==
    RequestErrors
      \cup (IF url_to_path(u).some THEN SaveErrors ELSE {})
      \cup (IF url_to_path(u).some /\ IsHtml(u) THEN HtmlErrors ELSE {})

\* a download that has pushed a link of the page when it returns Err(e)
FetchFailAfterPush(w, e) ==
    /\ pc[w] = "work"
    /\ e \in download_errors(url[w])
    /\ pc' = [pc EXCEPT ![w] = after_download(FALSE)]
    /\ err' = [err EXCEPT ![w] = e]
    /\ queues' = push(queues, aQ, Some(link_priority(aQ, downloaded_urls)))
    /\ UNCHANGED <<targets, downloaded_urls, checked_urls, latch, url, pos,
                   seen, stale, fetched, warnings, qhist, pvars,
                   fetched_by>>

\* download() returns Err(e)
FetchFail(w, e) ==
    /\ pc[w] = "work"
    /\ e \in download_errors(url[w])
    /\ pc' = [pc EXCEPT ![w] = after_download(FALSE)]
    /\ err' = [err EXCEPT ![w] = e]
    /\ UNCHANGED <<targets, downloaded_urls, checked_urls, queues, latch, url,
                   pos, seen, stale, fetched, warnings, qhist, pvars,
                   fetched_by>>

\* save_response_to_disk: url_to_path(response.url()).unwrap() on None
FetchPanic(w) ==
    /\ pc[w] = "work"
    /\ ~url_to_path(url[w]).some
    /\ pc' = [pc EXCEPT ![w] = "panicked"]
    /\ err' = [err EXCEPT ![w] = "panic"]
    /\ UNCHANGED <<targets, downloaded_urls, checked_urls, queues, latch, url,
                   pos, seen, stale, fetched, warnings, qhist, pvars,
                   fetched_by>>

\* save_response_to_disk: the parent directory does not exist and
\* create_dir_all(parent).unwrap() meets an io::Error (a component of the
\* parent exists as a file, or the directory cannot be created)
CreateDirPanic(w) ==
    /\ pc[w] = "work"
    /\ url_to_path(url[w]).some
    /\ pc' = [pc EXCEPT ![w] = "panicked"]
    /\ err' = [err EXCEPT ![w] = "panic"]
    /\ UNCHANGED <<targets, downloaded_urls, checked_urls, queues, latch, url,
                   pos, seen, stale, fetched, warnings, qhist, pvars,
                   fetched_by>>

\* the history h of the observed workers after the download of u by worker
\* w has returned Ok
Recorded(h, w, u) ==
    [k \in DOMAIN h |-> IF k = w THEN h[k] \cup {u} ELSE h[k]]

\* download(): the response is saved; a text/html document is read back and
\* tl::parse succeeds, anything else makes download return Ok
FetchOk(w) ==
    /\ pc[w] = "work"
    /\ url_to_path(url[w]).some
    /\ IF IsHtml(url[w])
       THEN /\ pc' = [pc EXCEPT ![w] = "parse"]
            /\ pos' = [pos EXCEPT ![w] = [i |-> 1, j |-> 0]]
            /\ UNCHANGED <<fetched, fetched_by>>
       ELSE /\ pc' = [pc EXCEPT ![w] = after_download(TRUE)]
            /\ fetched' = fetched \cup {url[w]}
            /\ fetched_by' = Recorded(fetched_by, w, url[w])
            /\ UNCHANGED pos
    /\ UNCHANGED <<targets, downloaded_urls, checked_urls, queues, latch, url,
                   seen, err, stale, warnings, qhist, pvars>>

\* parse(): the iterator is advanced to the next href that yields a URL and
\* the checked_urls filter is applied to it; the end of the document makes
\* parse and download return Ok
ParseNext(w) ==
    /\ pc[w] = "parse"
    /\ LET doc == Document(url[w])
           k == next_href(doc, pos[w].i)
       IN IF k > Len(doc)
          THEN /\ pc' = [pc EXCEPT ![w] = after_download(TRUE)]
               /\ fetched' = fetched \cup {url[w]}
               /\ fetched_by' = Recorded(fetched_by, w, url[w])
               /\ pos' = [pos EXCEPT ![w] = [i |-> 0, j |-> 0]]
          ELSE LET u == resolve(doc[k]).val
                   t == next_target(u, targets, 0)
               IN /\ UNCHANGED <<fetched, fetched_by>>
                  /\ IF is_checked(checked_urls, u) \/ t = 0
                     THEN /\ pos' = [pos EXCEPT ![w] = [i |-> k + 1, j |-> 0]]
                          /\ UNCHANGED pc
                     ELSE /\ pos' = [pos EXCEPT ![w] = [i |-> k, j |-> t]]
                          /\ pc' = [pc EXCEPT ![w] = "push"]
    /\ UNCHANGED <<targets, downloaded_urls, checked_urls, queues, latch, url,
                   seen, err, stale, warnings, qhist, pvars>>

\* parse(): the for_each body for one (url, target) pair that passed the
\* filters, then the product moves to the next pair that passes
ParsePush(w) ==
    /\ pc[w] = "push"
    /\ LET u == resolve(Document(url[w])[pos[w].i]).val
           t == next_target(u, targets, pos[w].j)
       IN /\ queues' = push(queues, u, Some(link_priority(u, downloaded_urls)))
          /\ IF t = 0
             THEN /\ pos' = [pos EXCEPT ![w] = [i |-> pos[w].i + 1, j |-> 0]]
                  /\ pc' = [pc EXCEPT ![w] = "parse"]
             ELSE /\ pos' = [pos EXCEPT ![w] = [i |-> pos[w].i, j |-> t]]
                  /\ UNCHANGED pc
    /\ UNCHANGED <<targets, downloaded_urls, checked_urls, latch, url, seen,
                   err, stale, fetched, warnings, qhist, pvars,
                   fetched_by>>

\* a requeue into the Low lane
requeue_low == "Low"

\* the priority of the requeue: Priority::Normal
requeue_priority == "Normal"

\* _run: the error is printed and the job pushed again
Requeue(w) ==
    /\ pc[w] = "requeue"
    /\ queues' = push(queues, url[w], Some(requeue_priority))
    /\ pc' = [pc EXCEPT ![w] = "pop"]
    /\ err' = [err EXCEPT ![w] = NoErr]
    /\ Idle(w)
    /\ UNCHANGED <<targets, downloaded_urls, checked_urls, latch, pos, seen,
                   fetched, warnings, qhist, pvars, fetched_by>>

\* an insert that reports every value as newly inserted
insert_always_fresh(set, value) == [set |-> set \cup {value}, fresh |-> TRUE]

\* DashSet::insert: the new set and whether the value was newly inserted
insert(set, value) == [set |-> set \cup {value}, fresh |-> value \notin set]

\* work(): "Saved", the insert into checked_urls and the "Checked twice"
\* warning; work returns Ok and the loop goes on
Mark(w) ==
    /\ pc[w] = "mark"
    /\ LET r == insert(checked_urls, url[w]) IN
         /\ checked_urls' = r.set
         /\ warnings' = IF r.fresh THEN warnings ELSE warnings \cup {url[w]}
    /\ pc' = [pc EXCEPT ![w] = "pop"]
    /\ Idle(w)
    /\ UNCHANGED <<targets, downloaded_urls, queues, latch, pos, seen, err,
                   fetched, qhist, pvars, fetched_by>>

(***************************************************************************)
(* The termination protocol (lib.rs 202-217) on synchronoise's             *)
(* CountdownEvent: signal and add both refuse a counter that is at zero    *)
(* (CountdownError::AlreadySet).                                           *)
(***************************************************************************)
\* a decrement that reports success and leaves the counter as it was
decrement_lost(count) == [ok |-> TRUE, count |-> count]

\* CountdownEvent::decrement
decrement(count) ==
    IF count = 0 THEN [ok |-> FALSE, count |-> count]
    ELSE [ok |-> TRUE, count |-> count - 1]

\* an increment that also accepts a counter that is at zero
increment_from_zero(count) == [ok |-> TRUE, count |-> count + 1]

\* CountdownEvent::increment
increment(count) ==
    IF count = 0 THEN [ok |-> FALSE, count |-> count]
    ELSE [ok |-> TRUE, count |-> count + 1]

\* latch.decrement().map_err(Error::DecrementLatch)?
Decrement(w) ==
    /\ pc[w] = "dec"
    /\ LET r == decrement(latch) IN
         IF r.ok
         THEN /\ latch' = r.count
              /\ pc' = [pc EXCEPT ![w] = "wait"]
              /\ UNCHANGED err
         ELSE /\ pc' = [pc EXCEPT ![w] = "failed"]
              /\ err' = [err EXCEPT ![w] = "DecrementLatch"]
              /\ UNCHANGED latch
    /\ UNCHANGED <<targets, downloaded_urls, checked_urls, queues, url, pos,
                   seen, stale, fetched, warnings, qhist, pvars,
                   fetched_by>>

\* latch.wait_timeout(Duration::from_secs(1)): returns when the counter is
\* zero or the second has passed
Wait(w) ==
    /\ pc[w] = "wait"
    /\ pc' = [pc EXCEPT ![w] = "check"]
    /\ UNCHANGED <<targets, downloaded_urls, checked_urls, queues, latch, url,
                   pos, seen, err, stale, fetched, warnings, qhist, pvars,
                   fetched_by>>

\* a check that lets a worker leave whatever the counter is
count_ignored(count) == TRUE

\* a check that lets a worker leave while one worker is still busy
count_at_most_one(count) == count <= 1

\* latch.count() == 0
count_is_zero(count) == count = 0

\* the first operand of the exit condition; && goes on to is_empty() only
\* when it holds
CheckCount(w) ==
    /\ pc[w] = "check"
    /\ IF count_is_zero(latch)
       THEN pc' = [pc EXCEPT ![w] = "checkq"]
       ELSE pc' = [pc EXCEPT ![w] = "incr"]
    /\ UNCHANGED <<targets, downloaded_urls, checked_urls, queues, latch, url,
                   pos, seen, err, stale, fetched, warnings, qhist, pvars,
                   fetched_by>>

\* PriorityQueue::is_empty: all() reads the lanes one after the other, in the
\* DashMap's iteration order, and stops at the first lane that is not empty;
\* with every lane seen empty the loop breaks
CheckQueue(w) ==
    /\ pc[w] = "checkq"
    /\ \E p \in Priority \ seen[w] :
         IF lane_is_empty(queues, p)
         THEN IF seen[w] \cup {p} = Priority
              THEN /\ pc' = [pc EXCEPT ![w] = "exited"]
                   /\ seen' = [seen EXCEPT ![w] = {}]
              ELSE /\ seen' = [seen EXCEPT ![w] = seen[w] \cup {p}]
                   /\ UNCHANGED pc
         ELSE /\ pc' = [pc EXCEPT ![w] = "incr"]
              /\ seen' = [seen EXCEPT ![w] = {}]
    /\ UNCHANGED <<targets, downloaded_urls, checked_urls, queues, latch, url,
                   pos, err, stale, fetched, warnings, qhist, pvars,
                   fetched_by>>

\* latch.increment().map_err(Error::IncrementLatch)?
Increment(w) ==
    /\ pc[w] = "incr"
    /\ LET r == increment(latch) IN
         IF r.ok
         THEN /\ latch' = r.count
              /\ pc' = [pc EXCEPT ![w] = "pop"]
              /\ UNCHANGED err
         ELSE /\ pc' = [pc EXCEPT ![w] = "failed"]
              /\ err' = [err EXCEPT ![w] = "IncrementLatch"]
              /\ UNCHANGED latch
    /\ UNCHANGED <<targets, downloaded_urls, checked_urls, queues, url, pos,
                   seen, stale, fetched, warnings, qhist, pvars,
                   fetched_by>>

(***************************************************************************)
(* The crawl: the worker threads of one run                                *)
(***************************************************************************)
Next ==
    \E w \in Workers :
        \/ Start(w)
        \/ StartFail(w)
        \/ PopFirst(w)
        \/ PopSecond(w)
        \/ Dispatch(w)
        \/ \E e \in RequestErrors \cup SaveErrors \cup HtmlErrors : FetchFail(w, e)
        \/ FetchPanic(w)
        \/ CreateDirPanic(w)
        \/ FetchOk(w)
        \/ ParseNext(w)
        \/ ParsePush(w)
        \/ Requeue(w)
        \/ Mark(w)
        \/ Decrement(w)
        \/ Wait(w)
        \/ CheckCount(w)
        \/ CheckQueue(w)
        \/ Increment(w)

Spec == Init /\ [][Next]_vars

(***************************************************************************)
(* The crawl with every worker observed: the same threads and steps, with  *)
(* fetched_by recording which worker's downloads returned Ok.              *)
(***************************************************************************)
\* the runs of the observed crawl: a page that links to itself, alone and
\* next to a target on an IP address, not on disk and on disk at start-up
FetchRuns == {Run(<<aDoc>>, {}),
              Run(<<aDoc, ip1Root>>, {aDoc})}

FetchInit ==
    /\ \E r \in FetchRuns :
         targets = r.targets /\ downloaded_urls = r.downloaded
    /\ checked_urls = {}
    /\ queues = seed(new, targets)
    /\ latch = NumWorkers
    /\ pc = [w \in Workers |-> "start"]
    /\ url = [w \in Workers |-> NoUrl]
    /\ pos = [w \in Workers |-> [i |-> 0, j |-> 0]]
    /\ seen = [w \in Workers |-> {}]
    /\ err = [w \in Workers |-> NoErr]
    /\ stale = [w \in Workers |-> FALSE]
    /\ fetched = {}
    /\ warnings = {}
    /\ pushed = <<>>
    /\ popped = <<>>
    /\ interleaved = FALSE
    /\ urls = <<>>
    /\ paths = <<>>
    /\ fetched_by = [w \in Workers |-> {}]

FetchSpec == FetchInit /\ [][Next]_vars

(***************************************************************************)
(* Properties of the termination protocol                                  *)
(***************************************************************************)
QueueEmpty == \A p \in Priority : queues[p] = <<>>

\* the positions of _run between a successful pop and the end of that job
Processing == {"dispatch", "work", "parse", "push", "mark", "requeue"}

SomeExited == \E w \in Workers : pc[w] = "exited"

\* C1: a worker leaves the loop through `break` only from the exit check
\* that follows its decrement and wait, and only in a state in which the
\* counter is 0 and both lanes of the queue are empty.
C1_ExitOnlyWhenQuiet ==
    [][\A w \in Workers :
         (pc[w] # "exited" /\ pc'[w] = "exited")
           => /\ pc[w] = "checkq"
              /\ latch = 0 /\ QueueEmpty
              /\ latch' = 0 /\ QueueEmpty']_vars

\* C1 witness: a worker has left through the exit check after work was done
C1_Witness == SomeExited /\ checked_urls # {}

\* C2: once a worker has left through the exit check the queue is empty, no
\* worker holds or processes a job, and nothing is pushed any more.
C2_NoWorkLost ==
    /\ [](SomeExited =>
            /\ QueueEmpty
            /\ \A w \in Workers : pc[w] \notin Processing /\ url[w] = NoUrl)
    /\ [][SomeExited => queues' = queues]_vars

\* C2 witness: a worker has left while another one has not left yet, after
\* links were discovered and fetched
C2_Witness ==
    /\ SomeExited
    /\ \E w \in Workers : pc[w] \in {"wait", "check", "checkq", "incr"}
    /\ Cardinality(checked_urls) >= 2

\* C3, as the final state the claim promises: when every worker has stopped,
\* every worker has left through the exit check.
C3_AllStoppedExited ==
    (\A w \in Workers : pc[w] \in {"exited", "failed"})
      => (\A w \in Workers : pc[w] = "exited")

C5_FailureRequeuedNormalOnce ==
    [][\A w \in Workers :
         /\ (err[w] = NoErr /\ err'[w] \in RequestErrors \cup SaveErrors \cup HtmlErrors)
              => /\ pc'[w] = "requeue"
                 /\ url'[w] = url[w]
                 /\ queues' = queues
         /\ (pc[w] = "requeue" /\ pc'[w] # "requeue")
              => /\ queues'["Normal"] = Append(queues["Normal"], url[w])
                 /\ queues'["Low"] = queues["Low"]
                 /\ pc'[w] = "pop"]_vars

\* C5 witness: a URL that links are only ever pushed with at Low (it is in
\* downloaded_urls and is no seed) sits in the Normal lane after a failure
C5_Witness ==
    /\ aQ \in downloaded_urls
    /\ \E i \in 1..Len(queues["Normal"]) : queues["Normal"][i] = aQ

\* C8: every URL in checked_urls is a URL whose download has returned Ok.
C8_CheckedOnlyAfterSuccess == checked_urls \subseteq fetched

\* C8 witness: a URL is checked while another job has failed and waits for
\* its requeue
C8_Witness ==
    /\ checked_urls # {}
    /\ \E w \in Workers : pc[w] = "requeue" /\ url[w] \notin checked_urls

Allowed(u) ==
    \E k \in 1..Len(targets) :
        /\ u.host = targets[k].host
        /\ starts_with(u.path, targets[k].path)

\* C10: every URL in the queue has the host of a configured target and a
\* path that starts with that target's path.
C10_OnlyTargetLinksQueued ==
    \A p \in Priority : \A i \in 1..Len(queues[p]) : Allowed(queues[p][i])

\* C11: the job of a text/html document that the HTML parser rejects still
\* succeeds: the worker's next step inserts the URL into checked_urls and
\* pushes nothing onto the queue.
C11_HtmlParseFailureSucceeds ==
    [][\A w \in Workers :
         (err[w] = "HtmlParse" /\ pc'[w] # pc[w])
           => /\ url[w] \in checked_urls'
              /\ queues' = queues]_vars

\* the link a worker at the push of parse() is about to push
LinkHeld(w) == resolve(Document(url[w])[pos[w].i]).val

\* the queue q after value has been appended to lane
Appended(q, lane, value) == [q EXCEPT ![lane] = Append(@, value)]

\* C12: every push of parse() appends the link to the Low lane if the link is
\* in downloaded_urls and to the Normal lane otherwise, and leaves the other
\* lane alone; before any worker has run, the Normal lane holds the targets
\* in their order and the Low lane is empty, whatever downloaded_urls holds.
C12_LinkPriority ==
    /\ []((\A w \in Workers : pc[w] = "start")
            => queues["Normal"] = targets /\ queues["Low"] = <<>>)
    /\ [][\A w \in Workers :
            (pc[w] = "push" /\ pos'[w] # pos[w])
              => IF LinkHeld(w) \in downloaded_urls
                 THEN queues' = Appended(queues, "Low", LinkHeld(w))
                 ELSE queues' = Appended(queues, "Normal", LinkHeld(w))]_vars

\* C12 witness: a link found on disk at start-up waits in the Low lane while
\* a link that was not on disk and is no seed waits in the Normal lane
C12_Witness ==
    /\ \E i \in 1..Len(queues["Low"]) : queues["Low"][i] \in downloaded_urls
    /\ \E i \in 1..Len(queues["Normal"]) :
         /\ queues["Normal"][i] \notin downloaded_urls
         /\ \A k \in 1..Len(targets) : queues["Normal"][i] # targets[k]

\* the workers whose last successful latch operation is a decrement: they
\* are between their decrement and the increment that follows it, or have
\* left the loop after the decrement
Idling ==
    {w \in Workers :
        \/ pc[w] \in {"wait", "check", "checkq", "incr", "exited"}
        \/ pc[w] = "failed" /\ err[w] = "IncrementLatch"}

\* C16: the counter is NumWorkers before any worker runs, stays within
\* 0..NumWorkers and always equals the number of workers that are not
\* between their decrement and the following increment or exit; it goes
\* down, by one, only in the step of a worker whose pop has just found both
\* lanes empty, and up, by one, only in the step of a worker that resumes
\* polling after an exit check that did not pass.
C16_CounterInvariant ==
    /\ [](/\ latch \in 0..NumWorkers
          /\ latch = NumWorkers - Cardinality(Idling)
          /\ (\A w \in Workers : pc[w] = "start") => latch = NumWorkers)
    /\ [][/\ latch' # latch
               => \E w \in Workers :
                     \/ /\ pc[w] = "dec" /\ pc'[w] = "wait"
                        /\ latch' = latch - 1
                     \/ /\ pc[w] = "incr" /\ pc'[w] = "pop"
                        /\ latch' = latch + 1
          /\ \A w \in Workers :
               /\ (pc[w] # "dec" /\ pc'[w] = "dec")
                    => pc[w] = "pop2" /\ queues["Low"] = <<>>
               /\ (pc[w] # "pop2" /\ pc'[w] = "pop2")
                    => pc[w] = "pop" /\ queues["Normal"] = <<>>
               /\ (pc[w] # "incr" /\ pc'[w] = "incr")
                    => \/ pc[w] = "check" /\ latch # 0
                       \/ pc[w] = "checkq" /\ ~QueueEmpty]_vars

\* C16 witness: a worker is about to increment after an exit check that did
\* not pass while another worker processes a job, after a URL was checked
C16_Witness ==
    /\ latch = NumWorkers - 1
    /\ \E w \in Workers : pc[w] = "incr"
    /\ \E w \in Workers : pc[w] \in Processing
    /\ checked_urls # {}

\* C17: no worker ends its loop with a latch error: every increment after an
\* exit check that did not pass succeeds, whatever the other workers have
\* done to the counter in between, and no decrement is refused.
C17_ResumeNeverFails ==
    \A w \in Workers :
        /\ pc[w] # "failed"
        /\ err[w] \notin {"DecrementLatch", "IncrementLatch"}

\* C18: no failure while a fetched resource is persisted ends the worker:
\* the worker's thread never panics, every such failure is a job failure
\* that is requeued.
C18_PersistFailureNeverKills ==
    \A w \in Workers : pc[w] # "panicked"

SomeDead == \E w \in Workers : pc[w] = "dead"

\* C19: once a worker has failed before its polling loop, the counter stays
\* above 0 (that worker is still counted), no other worker gets past the
\* counter read of the exit check, leaves or meets a latch error, and every
\* exit check of the others sends them to the increment and from there back
\* to polling, also with the queue exhausted.
C19_StartFailureGap ==
    /\ [](SomeDead
            => /\ latch >= Cardinality({w \in Workers : pc[w] = "dead"})
               /\ \A w \in Workers :
                    pc[w] \notin {"checkq", "exited", "failed"})
    /\ [][SomeDead
            => /\ SomeDead'
               /\ \A w \in Workers :
                    /\ (pc[w] = "dead") => pc'[w] = "dead" /\ latch' >= 1
                    /\ (pc[w] = "check" /\ pc'[w] # "check") => pc'[w] = "incr"
                    /\ (pc[w] = "incr" /\ pc'[w] # "incr")
                         => pc'[w] = "pop" /\ latch' = latch + 1]_vars

\* C19 witness: one worker failed at start-up and another, after the crawl
\* has fetched a page and exhausted the queue, is sent back from the exit
\* check
C19_Witness ==
    /\ SomeDead
    /\ QueueEmpty /\ checked_urls # {}
    /\ \A w \in Workers : pc[w] \notin Processing
    /\ \E w \in Workers : pc[w] = "incr"

\* C20: a link occurrence that passes the filters is pushed exactly once
\* during the parse of its page: the push of an occurrence adds one value to
\* the queue and is followed by the next href of the document, never by a
\* second push of the same occurrence.
C20_OnePushPerLink ==
    [][\A w \in Workers :
         (pc[w] = "push" /\ pos'[w] # pos[w])
           => /\ Len(queues'["Normal"]) + Len(queues'["Low"])
                   = Len(queues["Normal"]) + Len(queues["Low"]) + 1
              /\ pc'[w] = "parse"
              /\ pos'[w].i = pos[w].i + 1]_vars

\* the positions of _run of a worker that polls or works on a job
Active == Processing \cup {"pop", "pop2", "dec"}

\* C21: in every state in which the counter is 0 both lanes are empty and no
\* worker polls, holds or processes a job; from such a state on the counter
\* stays 0, the queue stays empty and no worker becomes active again.
C21_ZeroMeansQuiescence ==
    /\ [](latch = 0
            => /\ QueueEmpty
               /\ \A w \in Workers : pc[w] \notin Active /\ url[w] = NoUrl)
    /\ [][latch = 0
            => /\ latch' = 0
               /\ queues' = queues
               /\ \A w \in Workers : pc'[w] \notin Active]_vars

\* C21 witness: the counter is 0 after a crawl that fetched pages, while a
\* worker that read a counter above 0 is about to increment
C21_Witness ==
    /\ latch = 0
    /\ Cardinality(checked_urls) >= 2
    /\ \E w \in Workers : pc[w] = "incr"

\* the errors download() returns to work() and _run
JobErrors == RequestErrors \cup SaveErrors \cup HtmlErrors

\* the positions of parse() in which links are pushed
Extracting == {"parse", "push"}

QueueLen == Len(queues["Normal"]) + Len(queues["Low"])

\* C22: a job fails before anything of it has reached the shared state: the
\* failing step leaves checked_urls, downloaded_urls and the queue as they
\* are, and the requeue that follows appends the job's URL once and changes
\* nothing else; link extraction is entered only by a job whose request and
\* save succeeded and such a job never fails afterwards; the queue grows
\* only by the push of an extracting job or by a requeue.
C22_FailedJobFrame ==
    [][/\ downloaded_urls' = downloaded_urls
       /\ QueueLen' > QueueLen
            => \E w \in Workers :
                  \/ pc[w] = "push" /\ pos'[w] # pos[w]
                  \/ pc[w] = "requeue" /\ pc'[w] = "pop"
       /\ \A w \in Workers :
            /\ (err[w] = NoErr /\ err'[w] \in JobErrors)
                 => /\ pc[w] = "work" /\ pc'[w] = "requeue"
                    /\ url'[w] = url[w]
                    /\ queues' = queues
                    /\ checked_urls' = checked_urls
            /\ (pc[w] = "requeue" /\ pc'[w] # "requeue")
                 => /\ checked_urls' = checked_urls
                    /\ \E p \in Priority :
                          queues' = Appended(queues, p, url[w])
            /\ (pc[w] \notin Extracting /\ pc'[w] \in Extracting)
                 => /\ pc[w] = "work" /\ err'[w] = NoErr
                    /\ url_to_path(url[w]).some
            /\ (pc[w] \in Extracting)
                 => /\ pc'[w] \in Extracting \cup {"mark"}
                    /\ err'[w] = NoErr]_vars

\* C22 witness: a job failed when the saved page was read back, after links
\* of another page were pushed and a URL was checked
C22_Witness ==
    /\ \E w \in Workers : pc[w] = "requeue" /\ err[w] \in HtmlErrors
    /\ checked_urls # {}
    /\ ~QueueEmpty

\* C23: the step in which a worker's download returns Ok is never taken for
\* a URL that this worker has downloaded successfully before, so a URL is
\* downloaded successfully at most once by each of the NumWorkers workers,
\* however many copies of it are queued.
C23_OneFetchPerWorker ==
    [][\A w \in Workers :
         (pc[w] \in {"work", "parse"} /\ pc'[w] = "mark")
           => /\ url[w] \notin fetched_by[w]
              /\ fetched_by'[w] = fetched_by[w] \cup {url[w]}]_vars

\* C23 witness: one URL was downloaded successfully by every worker, and a
\* copy of it still sits in the queue
C23_Witness ==
    \E u \in checked_urls :
        /\ \A w \in Workers : u \in fetched_by[w]
        /\ \E p \in Priority : \E i \in 1..Len(queues[p]) : queues[p][i] = u

(***************************************************************************)
(* The priority queue on its own: the threads call push and pop in any     *)
(* order and interleaving. The pushed values are numbered in push order;   *)
(* pushed records the lane of each push and popped each return of a pop:   *)
(* its result and the lane it came from.                                   *)
(***************************************************************************)
PopResult(val, lane) == [val |-> val, lane |-> lane]

QInit ==
    /\ queues = new
    /\ pc = [c \in Workers |-> "idle"]
    /\ pushed = <<>>
    /\ popped = <<>>
    /\ interleaved = FALSE
    /\ targets = <<>>
    /\ downloaded_urls = {}
    /\ checked_urls = {}
    /\ latch = NumWorkers
    /\ url = [w \in Workers |-> NoUrl]
    /\ pos = [w \in Workers |-> [i |-> 0, j |-> 0]]
    /\ seen = [w \in Workers |-> {}]
    /\ err = [w \in Workers |-> NoErr]
    /\ stale = [w \in Workers |-> FALSE]
    /\ fetched = {}
    /\ warnings = {}
    /\ urls = <<>>
    /\ paths = <<>>
    /\ fetched_by = <<>>

QFrame ==
    UNCHANGED <<targets, downloaded_urls, checked_urls, latch, url, pos, seen,
                err, stale, fetched, warnings, pvars, fetched_by>>

\* the number of pop calls made so far
PopsBegun == Len(popped) + Cardinality({c \in Workers : pc[c] = "pop2"})

\* a thread calls push(value, priority) with the next value
QPush(c, priority) ==
    /\ pc[c] = "idle"
    /\ Len(pushed) < MaxPush
    /\ queues' = push(queues, Len(pushed) + 1, priority)
    /\ pushed' = Append(pushed, unwrap_or_default(priority))
    /\ interleaved' = (interleaved \/ PopsBegun > 0)
    /\ UNCHANGED <<pc, popped>>
    /\ QFrame

\* a thread calls pop(): the pop_priority of the first lane
QPopFirst(c) ==
    /\ pc[c] = "idle"
    /\ PopsBegun < MaxPops
    /\ LET r == pop_priority(queues, pop_order[1]) IN
         IF r.val.some
         THEN /\ queues' = r.q
              /\ popped' = Append(popped, PopResult(r.val, pop_order[1]))
              /\ UNCHANGED pc
         ELSE /\ pc' = [pc EXCEPT ![c] = "pop2"]
              /\ UNCHANGED <<queues, popped>>
    /\ UNCHANGED <<pushed, interleaved>>
    /\ QFrame

\* pop(): the pop_priority of the second lane; the call returns
QPopSecond(c) ==
    /\ pc[c] = "pop2"
    /\ LET r == pop_priority(queues, pop_order[2]) IN
         /\ queues' = r.q
         /\ popped' = Append(popped, PopResult(r.val, pop_order[2]))
    /\ pc' = [pc EXCEPT ![c] = "idle"]
    /\ UNCHANGED <<pushed, interleaved>>
    /\ QFrame

QNext ==
    \E c \in Workers :
        \/ \E priority \in {NoneV, Some("Normal"), Some("Low")} : QPush(c, priority)
        \/ QPopFirst(c)
        \/ QPopSecond(c)

QSpec == QInit /\ [][QNext]_vars

(***************************************************************************)
(* Properties of the priority queue                                        *)
(***************************************************************************)
\* the values popped from lane, in return order
RECURSIVE PoppedFrom(_, _)
PoppedFrom(results, lane) ==
    IF results = <<>> THEN <<>>
    ELSE IF Head(results).val.some /\ Head(results).lane = lane
         THEN <<Head(results).val.val>> \o PoppedFrom(Tail(results), lane)
         ELSE PoppedFrom(Tail(results), lane)

\* the values pushed to lane among the pushes k..Len(lanes), in push order
RECURSIVE PushedTo(_, _, _)
PushedTo(lanes, lane, k) ==
    IF k > Len(lanes) THEN <<>>
    ELSE IF lanes[k] = lane THEN <<k>> \o PushedTo(lanes, lane, k + 1)
    ELSE PushedTo(lanes, lane, k + 1)

\* L1, L2 were pushed at Low, then N1, N2 at Normal, and no pop had begun
\* before the last of these pushes
FourPushed == pushed = <<"Low", "Low", "Normal", "Normal">> /\ ~interleaved

\* the results the pops after FourPushed are to return: N1, N2, L1, L2 and
\* empty from then on
ExpectedPop(k) ==
    IF k = 1 THEN Some(3) ELSE IF k = 2 THEN Some(4)
    ELSE IF k = 3 THEN Some(1) ELSE IF k = 4 THEN Some(2) ELSE NoneV

\* C6: a pop whose first pop_priority finds the Normal lane non-empty
\* returns and removes its oldest value; only a pop that found the Normal
\* lane empty reads the Low lane, and it returns and removes the oldest
\* value of the Low lane, or returns empty and leaves the queue alone. After
\* the pushes L1, L2 (Low), N1, N2 (Normal) the pops return N1, N2, L1, L2
\* and then empty.
C6_PopPrecedence ==
    /\ [](FourPushed =>
            \A k \in 1..Len(popped) : popped[k].val = ExpectedPop(k))
    /\ [][/\ (pc' = pc /\ popped' # popped)
               => /\ queues["Normal"] # <<>>
                  /\ popped' = Append(popped,
                         PopResult(Some(Head(queues["Normal"])), "Normal"))
                  /\ queues' = [queues EXCEPT !["Normal"] = Tail(@)]
          /\ \A c \in Workers :
               /\ (pc[c] = "idle" /\ pc'[c] = "pop2")
                    => queues["Normal"] = <<>> /\ queues' = queues
               /\ (pc[c] = "pop2" /\ pc'[c] = "idle")
                    => IF queues["Low"] # <<>>
                       THEN /\ popped' = Append(popped,
                                   PopResult(Some(Head(queues["Low"])), "Low"))
                            /\ queues' = [queues EXCEPT !["Low"] = Tail(@)]
                       ELSE /\ popped' = Append(popped, PopResult(NoneV, "Low"))
                            /\ queues' = queues]_vars

\* C6 witness: after the four pushes five pops have returned, the last empty
C6_Witness == FourPushed /\ Len(popped) = 5 /\ ~popped[5].val.some

\* C7: in each lane, the values popped so far followed by the values still
\* queued are exactly the values pushed to that lane, in push order: pops
\* return a lane's values in the order of their pushes, every pushed value
\* is returned at most once and none is lost.
C7_FifoExactlyOnce ==
    \A p \in Priority :
        PoppedFrom(popped, p) \o queues[p] = PushedTo(pushed, p, 1)

\* C7 witness: pushes and pops were interleaved, two values of one lane were
\* popped while a third waits, and a pop of another thread is in progress
C7_Witness ==
    /\ interleaved
    /\ \E p \in Priority :
         Len(PoppedFrom(popped, p)) >= 2 /\ queues[p] # <<>>
    /\ \E c \in Workers : pc[c] = "pop2"

(***************************************************************************)
(* The path mapping on its own: url_to_path is called with two URLs that   *)
(* share host and path and carry any two query components.                 *)
(***************************************************************************)
\* the characters of the query strings: the separator, a character that
\* escape_default escapes and one that it leaves alone
QueryChars == {"/", "\\", "a"}

\* Url::query of the URLs: no query or a string of up to MaxQuery characters
Queries ==
    {NoneV} \cup {Some(q) : q \in UNION {[1..n -> QueryChars] : n \in 0..MaxQuery}}

\* the paths of the URLs: "/", "/p", "/d/", "/d/p", "//p"
UrlPaths == {<<"/">>, <<"/", "p">>, <<"/", "d", "/">>,
             <<"/", "d", "/", "p">>, <<"/", "/", "p">>}

\* http URLs on a domain name and on an IP address, an opaque URL
\* (mailto:x) and a URL without host that can be a base (unix:/x)
Urls ==
    {U(h, p) : h \in {Domain("h"), Ip("10.0.0.1")}, p \in UrlPaths}
      \cup {U(NoHost, <<"x">>), U(NoHost, <<"/", "x">>)}

PInit ==
    /\ \E u \in Urls : \E q1 \in Queries : \E q2 \in Queries :
         urls = <<with_query(u, q1), with_query(u, q2)>>
    /\ paths = <<>>
    /\ fetched_by = <<>>
    /\ targets = <<>>
    /\ downloaded_urls = {}
    /\ checked_urls = {}
    /\ queues = new
    /\ latch = NumWorkers
    /\ pc = [w \in Workers |-> "start"]
    /\ url = [w \in Workers |-> NoUrl]
    /\ pos = [w \in Workers |-> [i |-> 0, j |-> 0]]
    /\ seen = [w \in Workers |-> {}]
    /\ err = [w \in Workers |-> NoErr]
    /\ stale = [w \in Workers |-> FALSE]
    /\ fetched = {}
    /\ warnings = {}
    /\ pushed = <<>>
    /\ popped = <<>>
    /\ interleaved = FALSE

\* url_to_path is called with the next URL
MapUrl ==
    /\ Len(paths) < Len(urls)
    /\ paths' = Append(paths, url_to_path(urls[Len(paths) + 1]))
    /\ UNCHANGED <<targets, downloaded_urls, checked_urls, queues, latch, pc,
                   url, pos, seen, err, stale, fetched, warnings, qhist,
                   urls, fetched_by>>

PNext == MapUrl

PathSpec == PInit /\ [][PNext]_vars

(***************************************************************************)
(* Properties of the path mapping                                          *)
(***************************************************************************)
\* the host of u followed by its path up to and including the last '/'
Directory(u) == <<u.host.name>> \o SubSeq(u.path, 1, rfind(u.path, Len(u.path)))

\* what follows the last '/' of the path of u
LastSegment(u) ==
    SubSeq(u.path, rfind(u.path, Len(u.path)) + 1, Len(u.path))

\* index.html for an empty last segment, the last segment otherwise, then
\* '?' and the escaped query if u has a query
FileName(u) ==
    (IF LastSegment(u) = <<>> THEN <<"index.html">> ELSE LastSegment(u))
      \o (IF u.query.some THEN <<"?">> \o escape_path(u.query.val) ELSE <<>>)

\* C13: url_to_path returns none for an opaque URL; for every other URL with
\* a host it returns host + path with the last segment replaced by the file
\* name: index.html for an empty last segment, the last segment otherwise,
\* followed by '?' and the escaped query when the URL has a query.
C13_PathMapping ==
    \A k \in 1..Len(paths) :
        IF cannot_be_a_base(urls[k]) THEN paths[k] = NoneV
        ELSE urls[k].host.kind # "none"
               => paths[k] = Some(PathBuf_from(Directory(urls[k])
                                                 \o FileName(urls[k])))

\* the number of occurrences of the character c in the string s
RECURSIVE Count(_, _)
Count(s, c) ==
    IF s = <<>> THEN 0
    ELSE (IF Head(s) = c THEN 1 ELSE 0) + Count(Tail(s), c)

\* C14: the escaped query contains no '/' and one U+2215 for every '/' of
\* the query; the path mapped for a URL with a query has one component for
\* the file name on top of the components of the directory part of host +
\* path, and that last component is the file name followed by '?' and the
\* whole escaped query.
C14_SeparatorSafe ==
    \A k \in 1..Len(paths) :
        urls[k].query.some
          => /\ Count(escape_path(urls[k].query.val), "/") = 0
             /\ Count(escape_path(urls[k].query.val), DivisionSlash)
                  = Count(urls[k].query.val, "/")
             /\ paths[k].some
                  => /\ Len(paths[k].val)
                          = Len(PathBuf_from(Directory(urls[k]))) + 1
                     /\ paths[k].val[Len(paths[k].val)] = FileName(urls[k])

\* C14 witness: a path was mapped for a URL below a directory whose query
\* holds a '/' and a backslash
C14_Witness ==
    \E k \in 1..Len(paths) :
        /\ paths[k].some /\ urls[k].query.some
        /\ urls[k].path = <<"/", "d", "/", "p">>
        /\ Count(urls[k].query.val, "/") = 1
        /\ Count(urls[k].query.val, "\\") = 1

\* C15: two URLs with the same host and path and different query components
\* (one of them possibly without query) are never mapped to the same path,
\* and two different query strings never have the same escape.
C15_QueryInjective ==
    (Len(paths) = 2 /\ urls[1].query # urls[2].query)
      => /\ (paths[1].some /\ paths[2].some) => paths[1] # paths[2]
         /\ (urls[1].query.some /\ urls[2].query.some)
              => escape_path(urls[1].query.val) # escape_path(urls[2].query.val)

\* C15 witness: paths were mapped for a URL without query and for the same
\* URL with a query
C15_Witness ==
    /\ Len(paths) = 2 /\ paths[1].some /\ paths[2].some
    /\ ~urls[1].query.some /\ urls[2].query.some

====
